---------------------------- MODULE Spec2Model ----------------------------
(***************************************************************************)
(* hanzi-search: the IDS grammar parser, the tagged decomposition table    *)
(* and the three matching predicates of src/ids.rs, with the search        *)
(* functions of src/lib.rs.                                                *)
(*                                                                         *)
(* A Rust char is modelled by its Unicode scalar value (a natural number); *)
(* a &str / String by the sequence of its chars.                           *)
(***************************************************************************)
EXTENDS Integers, Sequences, FiniteSets, TLC

(***************************************************************************)
(* Characters                                                              *)
(***************************************************************************)
\* U+2FF0..U+2FFF and U+31EF: the codepoints of ENCODED_IDC (ids.rs:19)
ENCODED_IDC == (12272 .. 12287) \cup {12783}

\* '{', '}', '[', ']' as the parser's delimiters, '.' the search wildcard
LBRACE == 123
RBRACE == 125
LBRACKET == 91
RBRACKET == 93
WILDCARD_CHAR == 46

\* Names for the codepoints used to build inputs:
\*   lr  U+2FF0 (left-right, binary)      tb  U+2FF1 (top-bottom, binary)
\*   lmr U+2FF2 (left-mid-right, ternary) tmb U+2FF3 (top-mid-bottom, ternary)
\*   enc U+2FF4 (full surround, binary)   ovl U+2FFB (overlaid, binary)
\*   hm  U+2FFE (horizontal mirror, unary)
\*   ren U+4EBA, dan U+4EBB, cong U+4ECE, zhong U+4F17, mu U+6728
\*   G, T: tag labels; d0, d1, d2: digits of the code column
U == [lr |-> 12272, tb |-> 12273, lmr |-> 12274, tmb |-> 12275, enc |-> 12276,
      ovl |-> 12283, hm |-> 12286,
      ren |-> 20154, dan |-> 20155, cong |-> 20174, zhong |-> 20247, mu |-> 26408,
      G |-> 71, T |-> 84, d0 |-> 48, d1 |-> 49, d2 |-> 50]

(***************************************************************************)
(* IDC                                                                     *)
(***************************************************************************)
idc_arity(c) ==
    IF c \in {12286, 12287} THEN 1
    ELSE IF c \in {12274, 12275} THEN 3
    ELSE 2

is_idc(c) == c \in ENCODED_IDC

\* Option<IDC>: the set holding the result, empty for None
reduce(idc) ==
    IF idc = 12274 THEN {12272}
    ELSE IF idc = 12275 THEN {12273}
    ELSE {}

direction(idc) ==
    IF idc \in {12272, 12274} THEN "Hort"
    ELSE IF idc \in {12273, 12275} THEN "Vert"
    ELSE "Other"

is_same_direction(a, b) == direction(a) = direction(b)

(***************************************************************************)
(* IDS and Tag                                                             *)
(***************************************************************************)
Char(c) == [kind |-> "Char", c |-> c]
Special(s) == [kind |-> "Special", s |-> s]
Composition(idc, children) == [kind |-> "Composition", idc |-> idc, children |-> children]

Variant(s) == [kind |-> "Variant", s |-> s]
Anon(n) == [kind |-> "Anon", n |-> n]

RECURSIVE Concat(_)
Concat(ss) == IF ss = <<>> THEN <<>> ELSE Head(ss) \o Concat(Tail(ss))

\* the label written without its braces
DisplaySpecial_bare(s) == s

\* IDS::Special(s) => write!(f, "{{{}}}", s)
DisplaySpecial(s) == <<LBRACE>> \o s \o <<RBRACE>>

\* impl Display for IDS
RECURSIVE Display(_)
Display(t) ==
    CASE t.kind = "Char" -> <<t.c>>
      [] t.kind = "Special" -> DisplaySpecial(t.s)
      [] t.kind = "Composition" ->
            <<t.idc>> \o Concat([i \in 1 .. Len(t.children) |-> Display(t.children[i])])

(***************************************************************************)
(* Parser.  An IResult is [ok, inc, rest, val]: Ok((rest, val)) has ok,    *)
(* Err(Err::Error(_)) has neither flag, Err(Err::Incomplete(_)) has inc.   *)
(*                                                                         *)
(* Every parser function of ids.rs runs its combinators with               *)
(* Parser::parse, which in nom 8 (the version that exports                 *)
(* nom::bytes::take_while1 and nom::character::satisfy) processes in       *)
(* streaming mode: satisfy and take_while1 answer Incomplete when the      *)
(* input ends before they can decide.  character::complete::char and eof   *)
(* answer Error at the end of the input.                                   *)
(***************************************************************************)
Ok(rest, val) == [ok |-> TRUE, inc |-> FALSE, rest |-> rest, val |-> val]
Err == [ok |-> FALSE, inc |-> FALSE, rest |-> <<>>, val |-> <<>>]
Incomplete == [ok |-> FALSE, inc |-> TRUE, rest |-> <<>>, val |-> <<>>]

\* satisfy(pred): pred(c) is (c \in chars) = wanted
satisfy(input, chars, wanted) ==
    IF input = <<>> THEN Incomplete
    ELSE IF (Head(input) \in chars) = wanted THEN Ok(Tail(input), Head(input))
    ELSE Err

\* character::complete::char(c)
complete_char(input, c) ==
    IF input = <<>> \/ Head(input) # c THEN Err
    ELSE Ok(Tail(input), c)

\* the number of chars before the first stop, Len(input) when there is none
RECURSIVE PrefixLen(_, _)
PrefixLen(input, stop) ==
    IF input = <<>> \/ Head(input) = stop THEN 0
    ELSE 1 + PrefixLen(Tail(input), stop)

\* take_while1(|c| c != stop): the chars before the first stop, at least one;
\* Incomplete when the input ends without a stop
take_while1(input, stop) ==
    LET n == PrefixLen(input, stop)
    IN  IF n = Len(input) THEN Incomplete
        ELSE IF n = 0 THEN Err
        ELSE Ok(SubSeq(input, n + 1, Len(input)), SubSeq(input, 1, n))

\* delimited(open, body, close): the value of body when the three succeed
delimited_close(body, close) ==
    IF ~close.ok THEN close
    ELSE Ok(close.rest, body.val)

delimited_body(body, close_c, close_complete) ==
    IF ~body.ok THEN body
    ELSE delimited_close(body, IF close_complete THEN complete_char(body.rest, close_c)
                               ELSE satisfy(body.rest, {close_c}, TRUE))

\* delimited(open, take_while1(|c| c != close_c), close), open already applied;
\* close is char(close_c) or satisfy(|c| c == close_c)
delimited(open, close_c, close_complete) ==
    IF ~open.ok THEN open
    ELSE delimited_body(take_while1(open.rest, close_c), close_c, close_complete)

parser_tag(input) == delimited(complete_char(input, LBRACKET), RBRACKET, TRUE)

\* .map(|s: &str| IDS::Special(s.to_string()))
map_special(r) == IF r.ok THEN Ok(r.rest, Special(r.val)) ELSE r

parser_special(input) ==
    map_special(delimited(satisfy(input, {LBRACE}, TRUE), RBRACE, FALSE))

\* .map(IDS::Char)
map_char(r) == IF r.ok THEN Ok(r.rest, Char(r.val)) ELSE r

\* satisfy(|c| !is_idc(c) && !"{[".contains(c))
parser_char(input) ==
    map_char(satisfy(input, ENCODED_IDC \cup {LBRACE, LBRACKET}, FALSE))

RECURSIVE parser_ids(_)
RECURSIVE many_m_n(_, _, _, _)

\* one round of many_m_n on the result r of the child parser: an Error of the
\* child ends the repetition, an Incomplete is returned
many_m_n_step(min, max, input, acc, r) ==
    IF r.ok THEN many_m_n(min, max, r.rest, Append(acc, r.val))
    ELSE IF r.inc THEN r
    ELSE IF Len(acc) < min THEN Err
    ELSE Ok(input, acc)

\* many_m_n(min, max, parser_ids): acc holds the children parsed so far
many_m_n(min, max, input, acc) ==
    IF Len(acc) = max THEN Ok(input, acc)
    ELSE many_m_n_step(min, max, input, acc, parser_ids(input))

\* Ok((input, IDS::Composition { idc, children })), or the error of many_m_n
composition_of(idc_char, r) ==
    IF r.ok THEN Ok(r.rest, Composition(idc_char, r.val)) ELSE r

\* the body of parser_composition after satisfy(is_idc): c is its result
composition_children(c) ==
    IF ~c.ok THEN c
    ELSE composition_of(c.val, many_m_n(idc_arity(c.val), idc_arity(c.val), c.rest, <<>>))

parser_composition(input) == composition_children(satisfy(input, ENCODED_IDC, TRUE))

\* alt((first, second)): second is tried after an Error of first only
alt(first, second) == IF first.ok \/ first.inc THEN first ELSE second

\* alt((parser_composition, parser_special, parser_char))
parser_ids(input) ==
    alt(parser_composition(input), alt(parser_special(input), parser_char(input)))

\* combinator::eof
eof(input) == IF input = <<>> THEN Ok(input, input) ELSE Err

\* the end of the tuple parser: eof, then the TaggedIDS
tagged_eof(rest, ids, tag) ==
    IF ~eof(rest).ok THEN Err
    ELSE Ok(rest, [ids |-> ids, tag |-> Variant(tag)])

\* opt(parser_tag) on its result t: an Error is None (tag.unwrap_or_default()),
\* an Incomplete is returned
tagged_opt(r, t) ==
    IF t.inc THEN t
    ELSE IF t.ok THEN tagged_eof(t.rest, r.val, t.val)
    ELSE tagged_eof(r.rest, r.val, <<>>)

tagged_after_ids(r) == IF ~r.ok THEN r ELSE tagged_opt(r, parser_tag(r.rest))

\* (parser_ids, opt(parser_tag), eof); the value is a TaggedIDS
parser_tagged_ids(input) == tagged_after_ids(parser_ids(input))

\* Finish::finish, then the match of parse and parse_tagged: Ok(val), Err(_), or
\* the panic of finish() on Err(Err::Incomplete(_)), which keeps inc
finish_match(r) ==
    IF r.inc THEN r
    ELSE IF r.ok /\ r.rest = <<>> THEN r
    ELSE Err

\* Result<IDS, String>
parse(input) == finish_match(parser_ids(input))

\* Result<TaggedIDS, String>
parse_tagged(input) == finish_match(parser_tagged_ids(input))

(***************************************************************************)
(* State                                                                   *)
(***************************************************************************)
VARIABLES
    pc,       \* "loading", "loaded", "panicked" (the loader), "parsing" (ParseSpec)
    loader,   \* "load_file" or "load_from_string"
    content,  \* the dictionary text: a sequence of lines, each line the sequence
              \* of its whitespace-separated fields (split_whitespace)
    lineno,   \* number of lines the loader has taken from content
    cur,      \* `char` of the line being loaded
    parts,    \* the fields of the current line not yet processed (after skip(2))
    table,    \* IDSTable.table: (char, Tag) -> IDS
    tags,     \* IDSTable.tags: char -> Vec<Tag>
    cmd,      \* the last search call: "none", "find", "match", "pmatch"
    args,     \* its argument strings
    result,   \* its result
    src,      \* ParseSpec: the input string
    stage,    \* ParseSpec: "input", "parsed", "shown", "reparsed"
    tree,     \* ParseSpec: parse(src)
    shown,    \* ParseSpec: the Display text of the parsed tree
    again     \* ParseSpec: parse(shown)

vars == <<pc, loader, content, lineno, cur, parts, table, tags, cmd, args, result,
          src, stage, tree, shown, again>>

loadVars == <<loader, content, lineno, cur, parts, table, tags>>
searchVars == <<cmd, args, result>>
parseVars == <<src, stage, tree, shown, again>>

(***************************************************************************)
(* IDSTable: loading                                                       *)
(***************************************************************************)
EmptyMap == [k \in {} |-> {}]

\* HashMap::insert
MapInsert(m, k, v) == [x \in (DOMAIN m) \cup {k} |-> IF x = k THEN v ELSE m[x]]

\* tags.entry(char).and_modify(|v| v.push(tag)).or_insert(vec![tag])
PushTag(tgs, char, tag) ==
    MapInsert(tgs, char, IF char \in DOMAIN tgs THEN Append(tgs[char], tag) ELSE <<tag>>)

\* InsertTagged without the collision branch: a duplicate key replaces the entry
InsertTagged_overwrite(tbl, tgs, char, tids) ==
    [table |-> MapInsert(tbl, <<char, tids.tag>>, tids.ids),
     tags |-> PushTag(tgs, char, tids.tag)]

\* InsertTagged minting Anon(0) at every collision
InsertTagged_anon_zero(tbl, tgs, char, tids) ==
    LET key == <<char, tids.tag>>
        tag == IF key \in DOMAIN tbl THEN Anon(0) ELSE tids.tag
    IN  [table |-> MapInsert(tbl, <<char, tag>>, tids.ids),
         tags |-> PushTag(tgs, char, tag)]

\* The body of the inner loop once parse_tagged succeeded: the new table and tags
InsertTagged(tbl, tgs, char, tids) ==
    LET key == <<char, tids.tag>>
    IN  IF key \in DOMAIN tbl
        THEN LET tag == Anon(Len(tgs[char]))
             IN  [table |-> MapInsert(tbl, <<char, tag>>, tids.ids),
                  tags |-> PushTag(tgs, char, tag)]
        ELSE [table |-> MapInsert(tbl, key, tids.ids),
              tags |-> PushTag(tgs, char, tids.tag)]

\* One iteration of `for line in content.lines()` up to the inner loop
load_from_string_line ==
    /\ pc = "loading" /\ loader = "load_from_string"
    /\ parts = <<>> /\ lineno < Len(content)
    /\ LET line == content[lineno + 1]
       IN  /\ lineno' = lineno + 1
           /\ IF Len(line) < 3
              THEN UNCHANGED <<pc, cur, parts>>
              ELSE /\ cur' = Head(line[2])
                   /\ parts' = SubSeq(line, 3, Len(line))
                   /\ pc' = pc
    /\ UNCHANGED <<loader, content, table, tags>>
    /\ UNCHANGED searchVars /\ UNCHANGED parseVars

\* One iteration of `for (_i, line) in reader.lines().enumerate()` up to the inner
\* loop; parts[1] panics (index out of bounds) on a line of fewer than two fields
load_file_line ==
    /\ pc = "loading" /\ loader = "load_file"
    /\ parts = <<>> /\ lineno < Len(content)
    /\ LET line == content[lineno + 1]
       IN  /\ lineno' = lineno + 1
           /\ IF Len(line) < 2
              THEN /\ pc' = "panicked"
                   /\ UNCHANGED <<cur, parts>>
              ELSE /\ cur' = Head(line[2])
                   /\ parts' = SubSeq(line, 3, Len(line))
                   /\ pc' = pc
    /\ UNCHANGED <<loader, content, table, tags>>
    /\ UNCHANGED searchVars /\ UNCHANGED parseVars

\* One iteration of `for ids_str in parts.iter().skip(2)` (the same in both
\* loaders); the panic of parse_tagged unwinds out of the loader
load_ids ==
    /\ pc = "loading" /\ parts # <<>>
    /\ \E tids \in {parse_tagged(Head(parts))} :
           IF tids.inc
           THEN /\ pc' = "panicked"
                /\ UNCHANGED <<table, tags, parts>>
           ELSE /\ IF ~tids.ok
                   THEN UNCHANGED <<table, tags>>
                   ELSE LET new == InsertTagged(table, tags, cur, tids.val)
                        IN  /\ table' = new.table
                            /\ tags' = new.tags
                /\ parts' = Tail(parts)
                /\ pc' = pc
    /\ UNCHANGED <<loader, content, lineno, cur>>
    /\ UNCHANGED searchVars /\ UNCHANGED parseVars

\* Ok(IDSTable { table, tags })
load_return ==
    /\ pc = "loading" /\ parts = <<>> /\ lineno = Len(content)
    /\ pc' = "loaded"
    /\ UNCHANGED loadVars /\ UNCHANGED searchVars /\ UNCHANGED parseVars

(***************************************************************************)
(* Matching engine.  A call either returns ("true", "false") or recurses   *)
(* for ever and overflows the stack ("overflow").  The predicates are      *)
(* deterministic functions of their arguments and of the immutable table,  *)
(* so a call recurses for ever exactly when the same call is reached again *)
(* while it is still on the call stack: `stack` holds the calls in         *)
(* progress.                                                               *)
(***************************************************************************)
TT == "true"
FF == "false"
OVERFLOW == "overflow"

Bool(b) == IF b THEN TT ELSE FF

\* x && y and x || y, left to right
AndThen(x, y) == IF x = TT THEN y ELSE x
OrElse(x, y) == IF x = FF THEN y ELSE x

\* self.tags.get(k) followed by the loop over the tags: the recorded trees of k
\* that are not exactly Char(k), in tag-list order
Expansions(k) ==
    IF k \notin DOMAIN tags THEN <<>>
    ELSE LET keys == [i \in 1 .. Len(tags[k]) |-> <<k, tags[k][i]>>]
             NotSelf(key) == key \in DOMAIN table /\ table[key] # Char(k)
             kept == SelectSeq(keys, NotSelf)
         IN  [i \in 1 .. Len(kept) |-> table[kept[i]]]

Min(a, b) == IF a < b THEN a ELSE b

RECURSIVE ids_match_rec(_, _, _, _)
RECURSIVE MatchZip(_, _, _, _, _)

\* for (x, y) in xs.iter().zip(ys.iter()) { if !ids_match(x, y) { return false } } true
MatchZip(xs, ys, i, w, stack) ==
    IF i > Min(Len(xs), Len(ys)) THEN TT
    ELSE AndThen(ids_match_rec(xs[i], ys[i], w, stack), MatchZip(xs, ys, i + 1, w, stack))

\* (Char(k), Composition { .. }): the first recorded tree of k that is not Char(k)
\* decides; the later ones are not tried
ids_match_char_composition(k, b, wildcard_k, st) ==
    LET exp == Expansions(k)
    IN  IF exp = <<>> THEN FF
        ELSE ids_match_rec(exp[1], b, wildcard_k, st)

\* (Composition { .. }, Char(_))
ids_match_composition_char(a, b, wildcard_k, st) == ids_match_rec(b, a, wildcard_k, st)

\* xc.arity() == 3 && yc.arity() == 2 && xc.is_same_direction(*yc)
ids_match_regroup(a, b, wildcard_k, st) ==
    LET x == a.children
        y == b.children
        op == CHOOSE r \in reduce(a.idc) : TRUE
        ab == Composition(op, <<x[1], x[2]>>)
        bc == Composition(op, <<x[2], x[3]>>)
    IN  OrElse(AndThen(ids_match_rec(ab, y[1], wildcard_k, st),
                       ids_match_rec(x[3], y[2], wildcard_k, st)),
               AndThen(ids_match_rec(x[1], y[1], wildcard_k, st),
                       ids_match_rec(bc, y[2], wildcard_k, st)))

\* the arity-2 against arity-3 arm left out: the match falls through to false
ids_match_swap_arity_missing(a, b, wildcard_k, st) == FF

\* xc.arity() == 2 && yc.arity() == 3
ids_match_swap_arity(a, b, wildcard_k, st) == ids_match_rec(b, a, wildcard_k, st)

ids_match_rec(a, b, wildcard_k, stack) ==
    IF <<a, b>> \in stack THEN OVERFLOW
    ELSE
    LET st == stack \cup {<<a, b>>}
    IN  IF a.kind = "Char" /\ a.c = wildcard_k THEN TT
        ELSE IF b.kind = "Char" /\ b.c = wildcard_k THEN TT
        ELSE IF a.kind = "Special" /\ b.kind = "Special" THEN Bool(a.s = b.s)
        ELSE IF a.kind = "Char" /\ b.kind = "Char" THEN Bool(a.c = b.c)
        ELSE IF a.kind = "Char" /\ b.kind = "Composition" THEN
            ids_match_char_composition(a.c, b, wildcard_k, st)
        ELSE IF a.kind = "Composition" /\ b.kind = "Char" THEN
            ids_match_composition_char(a, b, wildcard_k, st)
        ELSE IF a.kind = "Composition" /\ b.kind = "Composition" THEN
            IF a.idc = b.idc THEN MatchZip(a.children, b.children, 1, wildcard_k, st)
            ELSE IF idc_arity(a.idc) = 3 /\ idc_arity(b.idc) = 2
                    /\ is_same_direction(a.idc, b.idc) THEN
                ids_match_regroup(a, b, wildcard_k, st)
            ELSE IF idc_arity(a.idc) = 2 /\ idc_arity(b.idc) = 3 THEN
                ids_match_swap_arity(a, b, wildcard_k, st)
            ELSE FF
        ELSE FF

ids_match(a, b, wildcard_k) == ids_match_rec(a, b, wildcard_k, {})

RECURSIVE ids_has_matching_subcomponent_rec(_, _, _, _)
RECURSIVE AnyMatching(_, _, _, _, _)

\* for x in xs { if ids_has_matching_subcomponent(x, b) { return true } } false
AnyMatching(xs, i, b, w, stack) ==
    IF i > Len(xs) THEN FF
    ELSE OrElse(ids_has_matching_subcomponent_rec(xs[i], b, w, stack),
                AnyMatching(xs, i + 1, b, w, stack))

\* (Char(a), Char(b)) => a == b: the atom is not expanded
ids_has_matching_char_char(a, b) == Bool(a = b)

\* the Char arm trying every recorded tree until one matches
ids_has_matching_char_composition_any(a, b, wildcard_k, st) ==
    AnyMatching(Expansions(a), 1, b, wildcard_k, st)

\* (Char(a), Composition { .. }): the first recorded tree of a that is not Char(a)
\* decides; the later ones are not tried
ids_has_matching_char_composition(a, b, wildcard_k, st) ==
    LET exp == Expansions(a)
    IN  IF exp = <<>> THEN FF
        ELSE ids_has_matching_subcomponent_rec(exp[1], b, wildcard_k, st)

ids_has_matching_subcomponent_rec(a, b, wildcard_k, stack) ==
    IF a \in stack THEN OVERFLOW
    ELSE
    LET st == stack \cup {a}
        m == ids_match(a, b, wildcard_k)
    IN  IF m # FF THEN m
        ELSE IF a.kind = "Char" /\ a.c = wildcard_k THEN TT
        ELSE IF b.kind = "Char" /\ b.c = wildcard_k THEN TT
        ELSE IF a.kind = "Special" /\ b.kind = "Special" THEN Bool(a.s = b.s)
        ELSE IF a.kind = "Special" THEN FF
        ELSE IF a.kind = "Char" /\ b.kind = "Char" THEN ids_has_matching_char_char(a.c, b.c)
        ELSE IF a.kind = "Char" /\ b.kind = "Special" THEN FF
        ELSE IF a.kind = "Char" THEN
            ids_has_matching_char_composition(a.c, b, wildcard_k, st)
        ELSE AnyMatching(a.children, 1, b, wildcard_k, st)

ids_has_matching_subcomponent(a, b, wildcard_k) ==
    ids_has_matching_subcomponent_rec(a, b, wildcard_k, {})

RECURSIVE ids_has_subcomponent_rec(_, _, _)
RECURSIVE AnyContains(_, _, _, _)

\* for c in cs { if ids_has_subcomponent(c, needle) { return true } } false
AnyContains(cs, i, needle, stack) ==
    IF i > Len(cs) THEN FF
    ELSE OrElse(ids_has_subcomponent_rec(cs[i], needle, stack),
                AnyContains(cs, i + 1, needle, stack))

\* the Char arm returning what the first recorded tree gives, as ids_match does
ids_has_subcomponent_char_first(a, needle, st) ==
    LET exp == Expansions(a)
    IN  IF exp = <<>> THEN FF
        ELSE ids_has_subcomponent_rec(exp[1], needle, st)

\* (Char(a), _): every recorded tree of a that is not Char(a) is tried, in
\* tag-list order, until one contains the needle
ids_has_subcomponent_char(a, needle, st) == AnyContains(Expansions(a), 1, needle, st)

\* the Composition arm without the loop over the children
ids_has_subcomponent_composition_shallow(children, needle, st) == FF

\* (Composition { children, .. }, _)
ids_has_subcomponent_composition(children, needle, st) == AnyContains(children, 1, needle, st)

ids_has_subcomponent_rec(haystack, needle, stack) ==
    IF haystack \in stack THEN OVERFLOW
    ELSE
    LET st == stack \cup {haystack}
    IN  IF haystack = needle THEN TT
        ELSE IF haystack.kind = "Special" /\ needle.kind = "Special"
            THEN Bool(haystack.s = needle.s)
        ELSE IF haystack.kind = "Special" THEN FF
        ELSE IF haystack.kind = "Char" /\ needle.kind = "Char" /\ haystack.c = needle.c
            THEN TT
        ELSE IF haystack.kind = "Char" /\ needle.kind = "Char"
                /\ haystack.c # needle.c /\ haystack.c \notin DOMAIN tags
            THEN FF
        ELSE IF haystack.kind = "Char"
            THEN ids_has_subcomponent_char(haystack.c, needle, st)
        ELSE ids_has_subcomponent_composition(haystack.children, needle, st)

ids_has_subcomponent(haystack, needle) == ids_has_subcomponent_rec(haystack, needle, {})

char_has_subcomponent(k, needle) == ids_has_subcomponent(Char(k), needle)

(***************************************************************************)
(* Search API (lib.rs)                                                     *)
(***************************************************************************)
\* String's Ord: lexicographic on the chars
RECURSIVE StrLess(_, _)
StrLess(s, t) ==
    IF t = <<>> THEN FALSE
    ELSE IF s = <<>> THEN TRUE
    ELSE IF Head(s) # Head(t) THEN Head(s) < Head(t)
    ELSE StrLess(Tail(s), Tail(t))

\* the two variants of the enum declared in the other order
TagLess_anon_first(t, u) ==
    IF t.kind = "Variant" /\ u.kind = "Variant" THEN StrLess(t.s, u.s)
    ELSE IF t.kind = "Anon" /\ u.kind = "Anon" THEN t.n < u.n
    ELSE t.kind = "Anon" /\ u.kind = "Variant"

\* #[derive(Ord)] on Tag: Variant(_) < Anon(_), then by the payload
TagLess(t, u) ==
    IF t.kind = "Variant" /\ u.kind = "Variant" THEN StrLess(t.s, u.s)
    ELSE IF t.kind = "Anon" /\ u.kind = "Anon" THEN t.n < u.n
    ELSE t.kind = "Variant" /\ u.kind = "Anon"

\* Ord on (char, Tag)
KeyLess(x, y) == x[1] < y[1] \/ (x[1] = y[1] /\ TagLess(x[2], y[2]))

\* collect() then sort() of a set of distinct keys
RECURSIVE Sorted(_)
Sorted(keys) ==
    IF keys = {} THEN <<>>
    ELSE LET least == CHOOSE x \in keys : \A y \in keys \ {x} : KeyLess(x, y)
         IN  <<least>> \o Sorted(keys \ {least})

SearchOk(list) == [kind |-> "Ok", list |-> list]
SearchErr == [kind |-> "Err", list |-> <<>>]
\* the process aborts on a stack overflow: the call never returns
SearchOverflow == [kind |-> "StackOverflow", list |-> <<>>]
\* parse panicked on the argument: the call never returns
SearchPanic == [kind |-> "Panic", list |-> <<>>]

\* table.iter().filter_map(...).collect(), sort(): keep[key] is the outcome of the
\* filter's condition on the entry
Collect(keep) ==
    IF \E key \in DOMAIN table : keep[key] = OVERFLOW THEN SearchOverflow
    ELSE SearchOk(Sorted({key \in DOMAIN table : keep[key] = TT}))

\* needles.iter().all(|needle| table.ids_has_subcomponent(&ids, &needle))
RECURSIVE AllNeedles(_, _, _)
AllNeedles(ids, needles, i) ==
    IF i > Len(needles) THEN TT
    ELSE AndThen(ids_has_subcomponent(ids, needles[i]), AllNeedles(ids, needles, i + 1))

\* the failure of the first needle that parse does not accept
first_failure(parsed, i) ==
    IF parsed[i].inc THEN SearchPanic ELSE SearchErr

\* the loop over needle_strs stops at the first needle that parse does not
\* accept; parsed[i] is parse(needle_strs[i])
search_find_parsed(parsed) ==
    IF \E i \in DOMAIN parsed : ~parsed[i].ok
    THEN first_failure(parsed, CHOOSE i \in DOMAIN parsed :
                                   ~parsed[i].ok /\ \A j \in 1 .. (i - 1) : parsed[j].ok)
    ELSE Collect([key \in DOMAIN table |->
                     AllNeedles(table[key], [i \in DOMAIN parsed |-> parsed[i].val], 1)])

search_find_result(needle_strs) ==
    search_find_parsed([i \in 1 .. Len(needle_strs) |-> parse(needle_strs[i])])

\* parsed is parse(pattern_str)
search_match_parsed(parsed) ==
    IF parsed.inc THEN SearchPanic
    ELSE IF ~parsed.ok THEN SearchErr
    ELSE Collect([key \in DOMAIN table |->
                     ids_match(table[key], parsed.val, WILDCARD_CHAR)])

search_match_result(pattern_str) == search_match_parsed(parse(pattern_str))

\* dedup() after sort() removes nothing: the keys of a HashMap are distinct
search_pmatch_parsed(parsed) ==
    IF parsed.inc THEN SearchPanic
    ELSE IF ~parsed.ok THEN SearchErr
    ELSE Collect([key \in DOMAIN table |->
                     ids_has_matching_subcomponent(table[key], parsed.val, WILDCARD_CHAR)])

search_pmatch_result(pattern_str) == search_pmatch_parsed(parse(pattern_str))

(***************************************************************************)
(* Inputs                                                                  *)
(***************************************************************************)
MaxLines == 2
MaxStrLen == 4

\* tagged-tree strings of dictionary lines and search arguments
Str == [ren    |-> <<U.ren>>,
        dan    |-> <<U.dan>>,
        cong   |-> <<U.cong>>,
        zhong  |-> <<U.zhong>>,
        mu     |-> <<U.mu>>,
        dot    |-> <<WILDCARD_CHAR>>,
        danren |-> <<U.lr, U.dan, U.ren>>,
        renren |-> <<U.lr, U.ren, U.ren>>,
        dotren |-> <<U.lr, WILDCARD_CHAR, U.ren>>,
        dandanG |-> <<U.tb, U.dan, U.dan, LBRACKET, U.G, RBRACKET>>,
        rencongT |-> <<U.tb, U.ren, U.cong, LBRACKET, U.T, RBRACKET>>,
        rencong |-> <<U.tb, U.ren, U.cong>>,
        three  |-> <<U.lmr, U.ren, U.ren, U.ren>>,
        left   |-> <<U.lr, U.lr, U.ren, U.ren, U.ren>>,
        right  |-> <<U.lr, U.ren, U.lr, U.ren, U.ren>>,
        opaque |-> <<U.tb, U.dan, LBRACE, U.ren, U.mu, RBRACE>>,
        short  |-> <<U.lr, U.ren>>,
        open   |-> <<LBRACE, U.ren>>,
        twice  |-> <<U.ren, U.ren>>,
        notag  |-> <<U.ren, LBRACKET, RBRACKET>>,
        danG   |-> <<U.dan, LBRACKET, U.G, RBRACKET>>,
        c1     |-> <<U.d0, U.d0, U.d0, U.d1>>,
        c2     |-> <<U.d0, U.d0, U.d0, U.d2>>]

\* dictionary lines, each already split at whitespace
Lines ==
    { <<Str.c1, Str.ren, Str.danren>>,
      <<Str.c2, Str.cong, Str.renren>>,
      <<Str.c2, Str.cong, Str.twice, Str.renren, Str.three>>,
      <<Str.c2, Str.cong, Str.short, Str.renren>>,
      <<Str.c1, Str.zhong, Str.dandanG, Str.rencongT>>,
      <<Str.c1, Str.zhong, Str.mu>>,
      <<Str.c2, Str.mu, Str.zhong, Str.renren>>,
      <<Str.c2, Str.mu, Str.left, Str.notag, Str.opaque>>,
      <<Str.c1, Str.dan, Str.dan, Str.dan, Str.danG>>,
      <<Str.c1, Str.ren>>,
      <<>> }

Contents == UNION {[1 .. n -> Lines] : n \in 0 .. MaxLines}

FindArgs ==
    { <<Str.ren>>, <<Str.mu>>, <<Str.dan, Str.ren>>, <<Str.renren>>, <<Str.short>>,
      <<Str.ren, Str.open>>, <<Str.twice, Str.open>> }

Patterns ==
    { Str.ren, Str.mu, Str.dot, Str.renren, Str.dotren, Str.rencong, Str.three,
      Str.left, Str.right, Str.short, Str.twice }

\* ParseSpec: every string of at most MaxStrLen chars over this alphabet
Alphabet == {U.lr, U.lmr, U.hm, LBRACE, RBRACE, LBRACKET, RBRACKET, U.ren}
Strings == UNION {[1 .. n -> Alphabet] : n \in 0 .. MaxStrLen}

(***************************************************************************)
(* Search actions                                                          *)
(***************************************************************************)
search_find ==
    /\ pc = "loaded" /\ cmd = "none"
    /\ \E needle_strs \in FindArgs :
          /\ cmd' = "find"
          /\ args' = needle_strs
          /\ result' = search_find_result(needle_strs)
    /\ UNCHANGED pc /\ UNCHANGED loadVars /\ UNCHANGED parseVars

search_match ==
    /\ pc = "loaded" /\ cmd = "none"
    /\ \E pattern_str \in Patterns :
          /\ cmd' = "match"
          /\ args' = <<pattern_str>>
          /\ result' = search_match_result(pattern_str)
    /\ UNCHANGED pc /\ UNCHANGED loadVars /\ UNCHANGED parseVars

search_pmatch ==
    /\ pc = "loaded" /\ cmd = "none"
    /\ \E pattern_str \in Patterns :
          /\ cmd' = "pmatch"
          /\ args' = <<pattern_str>>
          /\ result' = search_pmatch_result(pattern_str)
    /\ UNCHANGED pc /\ UNCHANGED loadVars /\ UNCHANGED parseVars

(***************************************************************************)
(* Parser actions (ParseSpec)                                              *)
(***************************************************************************)
NoResult == Err

parse_input ==
    /\ pc = "parsing" /\ stage = "input"
    /\ tree' = parse(src)
    /\ stage' = "parsed"
    /\ UNCHANGED <<pc, src, shown, again>>
    /\ UNCHANGED loadVars /\ UNCHANGED searchVars

parse_tagged_input ==
    /\ pc = "parsing" /\ stage = "input"
    /\ tree' = parse_tagged(src)
    /\ stage' = "tagged"
    /\ UNCHANGED <<pc, src, shown, again>>
    /\ UNCHANGED loadVars /\ UNCHANGED searchVars

display_tree ==
    /\ pc = "parsing" /\ stage = "parsed" /\ tree.ok
    /\ shown' = Display(tree.val)
    /\ stage' = "shown"
    /\ UNCHANGED <<pc, src, tree, again>>
    /\ UNCHANGED loadVars /\ UNCHANGED searchVars

parse_shown ==
    /\ pc = "parsing" /\ stage = "shown"
    /\ again' = parse(shown)
    /\ stage' = "reparsed"
    /\ UNCHANGED <<pc, src, tree, shown>>
    /\ UNCHANGED loadVars /\ UNCHANGED searchVars

(***************************************************************************)
(* Specifications                                                          *)
(***************************************************************************)
InitLoad ==
    /\ lineno = 0 /\ cur = 0 /\ parts = <<>>
    /\ table = EmptyMap /\ tags = EmptyMap

InitSearch == cmd = "none" /\ args = <<>> /\ result = SearchOk(<<>>)

InitParse == tree = NoResult /\ shown = <<>> /\ again = NoResult

Init ==
    /\ pc = "loading"
    /\ loader \in {"load_file", "load_from_string"}
    /\ content \in Contents
    /\ InitLoad /\ InitSearch
    /\ src = <<>> /\ stage = "unused" /\ InitParse

Next ==
    \/ load_from_string_line
    \/ load_file_line
    \/ load_ids
    \/ load_return
    \/ search_find
    \/ search_match
    \/ search_pmatch

Spec == Init /\ [][Next]_vars

ParseInit ==
    /\ pc = "parsing"
    /\ loader = "none" /\ content = <<>>
    /\ InitLoad /\ InitSearch
    /\ src \in Strings /\ stage = "input" /\ InitParse

ParseNext ==
    \/ parse_input
    \/ parse_tagged_input
    \/ display_tree
    \/ parse_shown

ParseSpec == ParseInit /\ [][ParseNext]_vars

\* the loader with its searches, or the parser on a string of its own
FullInit == Init \/ ParseInit
FullNext == Next \/ ParseNext
FullSpec == FullInit /\ [][FullNext]_vars

(***************************************************************************)
(* Trees the properties range over in a loaded state                       *)
(***************************************************************************)
RECURSIVE Subtrees(_)
Subtrees(t) ==
    IF t.kind = "Composition"
    THEN {t} \cup UNION {Subtrees(t.children[i]) : i \in 1 .. Len(t.children)}
    ELSE {t}

TableTrees == {table[key] : key \in DOMAIN table}
PatternTrees == {parse(p).val : p \in {q \in Patterns : parse(q).ok}}
\* further shapes: a vertical ternary tree and a regrouping of it, a unary
\* operator, an overlay, an Opaque label
MoreTrees ==
    { Composition(U.tmb, <<Char(U.ren), Char(U.dan), Char(U.cong)>>),
      Composition(U.tb, <<Char(U.ren), Composition(U.tb, <<Char(U.dan), Char(U.cong)>>)>>),
      Composition(U.hm, <<Char(U.ren)>>),
      Composition(U.ovl, <<Char(U.ren), Char(U.ren)>>),
      Special(<<U.ren, U.mu>>) }
AtomChars == (DOMAIN tags) \cup {U.ren, U.dan, U.mu, WILDCARD_CHAR}
AtomTrees == {Char(c) : c \in AtomChars}
Trees == UNION {Subtrees(t) : t \in TableTrees \cup PatternTrees \cup MoreTrees} \cup AtomTrees

Loaded == pc = "loaded" /\ cmd = "none"

(***************************************************************************)
(* C1                                                                      *)
(***************************************************************************)
NoDuplicateNamedTag ==
    \A c \in DOMAIN tags : \A i, j \in 1 .. Len(tags[c]) :
        (i < j /\ tags[c][i].kind = "Variant" /\ tags[c][j].kind = "Variant")
            => tags[c][i] # tags[c][j]

\* a step of the inner loop whose parsed (char, tag) key is already in the table
CollisionStep ==
    (pc = "loading" /\ parts # <<>> /\ parse_tagged(Head(parts)).ok
        /\ <<cur, parse_tagged(Head(parts)).val.tag>> \in DOMAIN table)
    => LET tids == parse_tagged(Head(parts)).val
           key == <<cur, tids.tag>>
           fresh == <<cur, Anon(Len(tags[cur]))>>
       IN  /\ fresh \in DOMAIN table'
           /\ table'[fresh] = tids.ids
           /\ tags'[cur] = Append(tags[cur], fresh[2])
           /\ key \in DOMAIN table'
           /\ table'[key] = table[key]

\* C1: in every state of a load no character's tag list holds two equal Named
\* tags, and a step whose parsed (character, tag) key is already present stores
\* the new tree under Anon(n), n the length of the character's tag list before
\* the step, appends that tag, and leaves the tree under the original key as it was.
C1_DuplicateBecomesAnonymous == [](NoDuplicateNamedTag) /\ [][CollisionStep]_vars

\* a load that met a duplicate key: the first entry and the Anon entry both exist
C1_Witness ==
    /\ pc = "loaded"
    /\ \E c \in DOMAIN tags : \E i \in 1 .. Len(tags[c]) :
          /\ tags[c][i] = Anon(i - 1)
          /\ tags[c][1].kind = "Variant"
          /\ <<c, tags[c][1]>> \in DOMAIN table
          /\ <<c, tags[c][i]>> \in DOMAIN table
          /\ table[<<c, tags[c][i]>>] # table[<<c, tags[c][1]>>]

(***************************************************************************)
(* C2                                                                      *)
(***************************************************************************)
Returns(r) == r \in {TT, FF}

\* C2: on every loaded table each of the three predicates returns a boolean for
\* all trees (stated as the claim has it; the code overflows the stack).
C2_EngineAlwaysReturns ==
    Loaded => \A a \in Trees : \A b \in Trees :
        /\ Returns(ids_match(a, b, WILDCARD_CHAR))
        /\ Returns(ids_has_matching_subcomponent(a, b, WILDCARD_CHAR))
        /\ Returns(ids_has_subcomponent(a, b))

\* C2, for strict containment only: the table whose only record gives a character
\* a tree that mentions the character
C2_ContainmentReturns ==
    Loaded => \A a \in Trees : \A b \in Trees : Returns(ids_has_subcomponent(a, b))

(***************************************************************************)
(* C4                                                                      *)
(***************************************************************************)
\* the tagged-tree strings of the records that have a code, a character and a tree
RECURSIVE WellFormedStrings(_)
WellFormedStrings(lines) ==
    IF lines = <<>> THEN 0
    ELSE LET line == Head(lines)
             n == IF Len(line) < 3 THEN 0
                  ELSE Cardinality({i \in 3 .. Len(line) : parse_tagged(line[i]).ok})
         IN  n + WellFormedStrings(Tail(lines))

\* C4: neither loader aborts, and once the load has returned every well-formed
\* tagged string of the text has its own entry in the table (stated as the claim
\* has it; load_file panics on a line of fewer than two fields, and both loaders
\* panic on a tagged string that ends inside a composition, an Opaque block or
\* a tag).
C4_LoadSkipsBadRecords ==
    /\ pc # "panicked"
    /\ pc = "loaded" => Cardinality(DOMAIN table) = WellFormedStrings(content)

(***************************************************************************)
(* C5                                                                      *)
(***************************************************************************)
TwoLines == << <<Str.c1, Str.ren, Str.danren>>, <<Str.c2, Str.cong, Str.renren>> >>
FindRen == content = TwoLines /\ cmd = "find" /\ args = <<Str.ren>>

\* C5 as claimed: find(["ren"]) on the two-line table returns cong and not ren
C5_FindOmitsRenItself ==
    FindRen => result = SearchOk(<< <<U.cong, Variant(<<>>)>> >>)

\* C5: find(["ren"]) on the two-line table returns ren and cong, each under the
\* empty Named tag, in that order: the recorded tree of ren has the atom ren as
\* a child, and a child equal to the needle is a match.
C5_FindReturnsRenAndCong ==
    FindRen => result = SearchOk(<< <<U.ren, Variant(<<>>)>>, <<U.cong, Variant(<<>>)>> >>)

C5_Witness == FindRen /\ result.kind = "Ok" /\ Len(result.list) = 2

(***************************************************************************)
(* C3                                                                      *)
(***************************************************************************)
Wildcards == {WILDCARD_CHAR, U.ren}

\* C3: on every loaded table, for every wildcard and all trees a and b,
\* ids_match(a, b, w) and ids_match(b, a, w) have the same outcome.
C3_MatchSymmetric ==
    Loaded => \A w \in Wildcards : \A a \in Trees : \A b \in Trees :
        ids_match(a, b, w) = ids_match(b, a, w)

\* an atom matched with a composition through its recorded tree, and a ternary
\* composition matched with a regrouped binary one, each in both operand orders
C3_Witness ==
    /\ Loaded
    /\ \E a \in Trees : \E b \in Trees :
          /\ a.kind = "Char" /\ a.c # WILDCARD_CHAR /\ b.kind = "Composition"
          /\ ids_match(a, b, WILDCARD_CHAR) = TT
          /\ ids_match(b, a, WILDCARD_CHAR) = TT
    /\ \E a \in Trees : \E b \in Trees :
          /\ a.kind = "Composition" /\ b.kind = "Composition"
          /\ idc_arity(a.idc) = 3 /\ idc_arity(b.idc) = 2
          /\ ids_match(a, b, WILDCARD_CHAR) = TT
          /\ ids_match(b, a, WILDCARD_CHAR) = TT

(***************************************************************************)
(* C6                                                                      *)
(***************************************************************************)
Ternary == {c \in ENCODED_IDC : idc_arity(c) = 3}
Binary == {c \in ENCODED_IDC : idc_arity(c) = 2}

Regrouped(op3, a, b, c, allowed) ==
    LET op2 == CHOOSE r \in reduce(op3) : TRUE
        t3 == Composition(op3, <<Char(a), Char(b), Char(c)>>)
        left == Composition(op2, <<Composition(op2, <<Char(a), Char(b)>>), Char(c)>>)
        right == Composition(op2, <<Char(a), Composition(op2, <<Char(b), Char(c)>>)>>)
    IN  /\ ids_match(t3, left, WILDCARD_CHAR) \in allowed
        /\ ids_match(t3, right, WILDCARD_CHAR) \in allowed

OtherBinary(op3, a, b, c) ==
    LET t3 == Composition(op3, <<Char(a), Char(b), Char(c)>>)
    IN  \A o \in Binary \ reduce(op3) :
            /\ ids_match(t3, Composition(o, <<Composition(o, <<Char(a), Char(b)>>), Char(c)>>),
                         WILDCARD_CHAR) = FF
            /\ ids_match(t3, Composition(o, <<Char(a), Composition(o, <<Char(b), Char(c)>>)>>),
                         WILDCARD_CHAR) = FF

\* C6: on every loaded table, for all atoms a, b, c and both ternary operators,
\* the ternary composition matches both regroupings under the reduced operator,
\* and matches no regrouping under any other binary operator (stated as the
\* claim has it; with atoms whose recorded trees name each other the call
\* overflows the stack instead of returning true).
C6_RegroupAlwaysMatches ==
    Loaded => \A op3 \in Ternary : \A a \in AtomChars : \A b \in AtomChars : \A c \in AtomChars :
        /\ Regrouped(op3, a, b, c, {TT})
        /\ OtherBinary(op3, a, b, c)

\* what is left of C6 on the code: no regrouping returns false
C6_RegroupNeverFalse ==
    Loaded => \A op3 \in Ternary : \A a \in AtomChars : \A b \in AtomChars : \A c \in AtomChars :
        /\ Regrouped(op3, a, b, c, {TT, OVERFLOW})
        /\ OtherBinary(op3, a, b, c)

(***************************************************************************)
(* C9                                                                      *)
(***************************************************************************)
\* C9 as claimed: an atom haystack that differs from the needle and has a
\* recorded tree other than itself gives what its first such tree gives.
C9_OnlyFirstExpansion ==
    Loaded => \A k \in DOMAIN tags : \A needle \in Trees :
        (Char(k) # needle /\ Expansions(k) # <<>>)
            => ids_has_subcomponent(Char(k), needle)
                 = ids_has_subcomponent(Expansions(k)[1], needle)

\* C9: for an atom haystack k that differs from the needle and has a tag list,
\* strict containment tries the recorded trees of k that are not Atom(k) one
\* after the other in tag-list order: it returns true exactly when one of them
\* contains the needle and all the earlier ones returned false, and returns
\* false exactly when everyone of them returned false; a later tag is tried
\* when an earlier one returned false.
C9_EveryExpansionInOrder ==
    Loaded => \A k \in DOMAIN tags : \A needle \in Trees :
        Char(k) # needle =>
            LET exp == Expansions(k)
                r == ids_has_subcomponent(Char(k), needle)
                sub(i) == ids_has_subcomponent(exp[i], needle)
            IN  /\ r = TT <=> \E i \in 1 .. Len(exp) :
                                  sub(i) = TT /\ \A j \in 1 .. (i - 1) : sub(j) = FF
                /\ r = FF <=> \A i \in 1 .. Len(exp) : sub(i) = FF

\* the first recorded tree does not contain the needle and the second one does
C9_Witness ==
    /\ Loaded
    /\ \E k \in DOMAIN tags : \E needle \in Trees :
          /\ Char(k) # needle
          /\ Len(Expansions(k)) >= 2
          /\ ids_has_subcomponent(Expansions(k)[1], needle) = FF
          /\ ids_has_subcomponent(Expansions(k)[2], needle) = TT
          /\ ids_has_subcomponent(Char(k), needle) = TT

(***************************************************************************)
(* C10                                                                     *)
(***************************************************************************)
HasDescendant(key, c) == Char(c) \in Subtrees(table[key])
Listed(key) == \E i \in 1 .. Len(result.list) : result.list[i] = key
PmatchRen == cmd = "pmatch" /\ args = <<Str.ren>>

\* C10 as claimed: true exactly when ids_match holds, or an atom has any
\* recorded tree other than itself that satisfies the predicate, or a
\* composition has a child that does, whatever the pattern; pmatch("ren")
\* returns every entry whose tree has the atom ren in it.
C10_AnyExpansionAnyPattern ==
    /\ Loaded => \A a \in Trees : \A b \in Trees :
          ids_has_matching_subcomponent(a, b, WILDCARD_CHAR) = TT
          <=> \/ ids_match(a, b, WILDCARD_CHAR) = TT
              \/ /\ a.kind = "Char"
                 /\ \E i \in 1 .. Len(Expansions(a.c)) :
                       ids_has_matching_subcomponent(Expansions(a.c)[i], b, WILDCARD_CHAR) = TT
              \/ /\ a.kind = "Composition"
                 /\ \E i \in 1 .. Len(a.children) :
                       ids_has_matching_subcomponent(a.children[i], b, WILDCARD_CHAR) = TT
    /\ PmatchRen =>
          /\ result.kind = "Ok"
          /\ \A key \in DOMAIN table : HasDescendant(key, U.ren) => Listed(key)

\* C10: ids_has_matching_subcomponent(a, b, w) returns true exactly when
\* ids_match(a, b, w) returns true, or ids_match returns false and either a is
\* an Atom, b a Composition and the first recorded tree of a that is not a
\* itself satisfies the predicate, or a is a Composition and one of its
\* children satisfies it, all the earlier children having returned false.  It
\* returns false exactly when ids_match returns false and that tree, or every
\* child, returns false; an Atom is never expanded against an Atom or Opaque
\* pattern and its later recorded trees are never tried.  In every other case
\* the call overflows the stack.  pmatch("ren") either overflows or lists every
\* entry whose own recorded tree holds the atom ren.
C10_FirstExpansionCompositionPattern ==
    /\ Loaded => \A a \in Trees : \A b \in Trees :
          LET r == ids_has_matching_subcomponent(a, b, WILDCARD_CHAR)
              m == ids_match(a, b, WILDCARD_CHAR)
              exp == IF a.kind = "Char" THEN Expansions(a.c) ELSE <<>>
              kids == IF a.kind = "Composition" THEN a.children ELSE <<>>
              first == ids_has_matching_subcomponent(exp[1], b, WILDCARD_CHAR)
              kid(i) == ids_has_matching_subcomponent(kids[i], b, WILDCARD_CHAR)
              expands == a.kind = "Char" /\ b.kind = "Composition" /\ exp # <<>>
          IN  /\ r = TT <=> \/ m = TT
                            \/ m = FF /\ expands /\ first = TT
                            \/ /\ m = FF
                               /\ \E i \in 1 .. Len(kids) :
                                     kid(i) = TT /\ \A j \in 1 .. (i - 1) : kid(j) = FF
              /\ r = FF <=> /\ m = FF
                            /\ expands => first = FF
                            /\ \A i \in 1 .. Len(kids) : kid(i) = FF
    /\ PmatchRen =>
          /\ result.kind \in {"Ok", "StackOverflow"}
          /\ result.kind = "Ok" =>
                \A key \in DOMAIN table : HasDescendant(key, U.ren) => Listed(key)

\* a pmatch("ren") that lists an entry whose tree holds the atom ren and leaves
\* out an entry whose tree is an atom that is not expanded, although the
\* recorded tree of that atom satisfies the predicate
C10_Witness ==
    /\ PmatchRen /\ result.kind = "Ok"
    /\ \E key \in DOMAIN table : HasDescendant(key, U.ren) /\ Listed(key)
    /\ \E key \in DOMAIN table :
          /\ ~Listed(key)
          /\ table[key].kind = "Char"
          /\ Expansions(table[key].c) # <<>>
          /\ ids_has_matching_subcomponent(Expansions(table[key].c)[1], Char(U.ren),
                                           WILDCARD_CHAR) = TT

(***************************************************************************)
(* C7                                                                      *)
(***************************************************************************)
\* C7: for every string parse accepts, parsing the Display text of the tree
\* succeeds and gives the same tree.
C7_ParseDisplayRoundTrip ==
    stage = "reparsed" => again.ok /\ again.val = tree.val

\* a round trip of a composition that has an Opaque child
C7_Witness ==
    /\ stage = "reparsed"
    /\ tree.val.kind = "Composition"
    /\ \E i \in 1 .. Len(tree.val.children) : tree.val.children[i].kind = "Special"
    /\ again.ok

(***************************************************************************)
(* C8                                                                      *)
(***************************************************************************)
RECURSIVE ArityRespected(_)
ArityRespected(t) ==
    t.kind = "Composition" =>
        /\ Len(t.children) = idc_arity(t.idc)
        /\ Len(t.children) \in {1, 2, 3}
        /\ \A i \in 1 .. Len(t.children) : ArityRespected(t.children[i])

\* fewer sub-trees than the arity of op, each one a text parse accepts
TooFew(op, text) ==
    UNION {[1 .. n -> {text, Str.ren, Str.renren}] : n \in 0 .. (idc_arity(op) - 1)}

\* C8: every Composition of a tree that parse or parse_tagged returns, and of a
\* tree stored in the table, has as many children as the arity of its operator,
\* and an operator followed by fewer sub-trees than its arity, with nothing
\* after them, makes both return an error (stated as the claim has it; on such
\* an input the parser answers Incomplete and finish() panics).
C8_ChildCountIsArity ==
    /\ (stage = "parsed" /\ tree.ok) => ArityRespected(tree.val)
    /\ (stage = "tagged" /\ tree.ok) => ArityRespected(tree.val.ids)
    /\ \A key \in DOMAIN table : ArityRespected(table[key])
    /\ stage = "shown" =>
          \A op \in ENCODED_IDC : \A kids \in TooFew(op, shown) :
              /\ parse(<<op>> \o Concat(kids)) = Err
              /\ parse_tagged(<<op>> \o Concat(kids)) = Err

(***************************************************************************)
(* C11                                                                     *)
(***************************************************************************)
\* the place of tag t in the tag list of c: the arrival order
Pos(c, t) == CHOOSE i \in 1 .. Len(tags[c]) : tags[c][i] = t

Answered == cmd # "none" /\ result.kind = "Ok"

\* C11 as claimed: a tag inserted earlier compares less than a tag of the same
\* character inserted later, and a search lists the variants of a character in
\* the order they were loaded.
C11_ArrivalOrder ==
    /\ \A c \in DOMAIN tags : \A i, j \in 1 .. Len(tags[c]) :
          i < j => TagLess(tags[c][i], tags[c][j])
    /\ Answered => \A i, j \in 1 .. Len(result.list) :
          (i < j /\ result.list[i][1] = result.list[j][1])
              => Pos(result.list[i][1], result.list[i][2])
                   < Pos(result.list[j][1], result.list[j][2])

\* C11: the order on Tags is the order of the enum: every Named tag is less than
\* every Anonymous tag, Named tags compare by their labels and Anonymous tags by
\* their indexes.  It is the arrival order among the Anonymous tags of a
\* character only.  The sorted output of a search lists the characters in
\* increasing order and the variants of one character in that order of Tags.
C11_NamedBeforeAnonymous ==
    /\ \A c \in DOMAIN tags : \A i, j \in 1 .. Len(tags[c]) :
          (i < j /\ tags[c][i].kind = "Anon" /\ tags[c][j].kind = "Anon")
              => tags[c][i].n < tags[c][j].n
    /\ Answered => \A i, j \in 1 .. Len(result.list) :
          i < j =>
              LET x == result.list[i]
                  y == result.list[j]
              IN  \/ x[1] < y[1]
                  \/ /\ x[1] = y[1]
                     /\ \/ x[2].kind = "Variant" /\ y[2].kind = "Anon"
                        \/ /\ x[2].kind = "Variant" /\ y[2].kind = "Variant"
                           /\ StrLess(x[2].s, y[2].s)
                        \/ /\ x[2].kind = "Anon" /\ y[2].kind = "Anon"
                           /\ x[2].n < y[2].n

\* a search result that lists a Named tag before an Anonymous tag of the same
\* character although the Named tag was loaded after it
C11_Witness ==
    /\ Answered
    /\ \E i, j \in 1 .. Len(result.list) :
          /\ i < j /\ result.list[i][1] = result.list[j][1]
          /\ result.list[i][2].kind = "Variant" /\ result.list[j][2].kind = "Anon"
          /\ Pos(result.list[i][1], result.list[i][2])
               > Pos(result.list[j][1], result.list[j][2])

(***************************************************************************)
(* C12                                                                     *)
(***************************************************************************)
NoDuplicateTag ==
    \A c \in DOMAIN tags : \A i, j \in 1 .. Len(tags[c]) :
        i < j => tags[c][i] # tags[c][j]

\* (c, t) is a key of the table exactly when t occurs in tags[c]
KeysAreTags ==
    DOMAIN table = UNION {{<<c, tags[c][i]>> : i \in 1 .. Len(tags[c])} : c \in DOMAIN tags}

EntriesAreParsedStrings ==
    pc = "loaded" => Cardinality(DOMAIN table) = WellFormedStrings(content)

\* a step of the inner loop on a string that parse_tagged accepts adds one key
\* that was not in the table, under the character of the line, holding the
\* parsed tree, and changes no other entry; the key is the parsed one unless
\* that one was present, and then it is Anonymous
InsertStep ==
    (pc = "loading" /\ parts # <<>> /\ parse_tagged(Head(parts)).ok)
    => LET tids == parse_tagged(Head(parts)).val
       IN  \E key \in DOMAIN table' :
              /\ key \notin DOMAIN table
              /\ DOMAIN table' = DOMAIN table \cup {key}
              /\ key[1] = cur
              /\ table'[key] = tids.ids
              /\ \A old \in DOMAIN table : table'[old] = table[old]
              /\ IF <<cur, tids.tag>> \in DOMAIN table
                 THEN key[2].kind = "Anon"
                 ELSE key[2] = tids.tag

\* C12: in every state of a load no tag list holds the same tag twice and the
\* keys of the table are exactly the (character, tag) pairs of the tag lists;
\* every accepted tagged string adds exactly one new key, so that no entry is
\* lost or replaced; and a load that returns has as many entries as the text
\* has accepted strings.
C12_LoadNeverOverwrites ==
    [](NoDuplicateTag /\ KeysAreTags /\ EntriesAreParsedStrings) /\ [][InsertStep]_vars

\* a returned load that minted two Anonymous tags for one character and skipped
\* a string that does not parse
C12_Witness ==
    /\ pc = "loaded"
    /\ \E c \in DOMAIN tags : \E i, j \in 1 .. Len(tags[c]) :
          /\ i < j /\ tags[c][i].kind = "Anon" /\ tags[c][j].kind = "Anon"
          /\ <<c, tags[c][i]>> \in DOMAIN table /\ <<c, tags[c][j]>> \in DOMAIN table
    /\ \E n \in 1 .. Len(content) : \E k \in 3 .. Len(content[n]) :
          ~parse_tagged(content[n][k]).ok

=============================================================================
